---- MODULE Spec2Model ----
(***************************************************************************)
(* Task lifecycle engine of the image generation service:                  *)
(*   - the task store        (services/task_service.py, db/models.py)      *)
(*   - the generator client  (services/ai_service.py)                      *)
(*   - the artifact store    (services/image_service.py)                   *)
(*   - the executor          (api/pic.py, process_image_task)              *)
(*                                                                         *)
(* Spec     : requests, background runs, deletions, store and network      *)
(*            faults, interleaved at the granularity of one service call.  *)
(* SpecLive : Spec with weak fairness on the steps of the background runs. *)
(* SpecGen  : one call of AIService.generate_image, one loop iteration per *)
(*            step, the response of each attempt chosen by the             *)
(*            environment.                                                 *)
(* SpecUpd  : two update_task calls on one task id, each split into its    *)
(*            read (session.get) and its write (session.commit).           *)
(* SpecSvc  : the TaskService methods called directly, one after another.  *)
(* SpecMark : create, set a status, mark completed and read back, as the   *)
(*            scripts that drive a task by hand do.                        *)
(* SpecLoad : submissions scheduled, started and finished, counted.        *)
(* SpecList : the task listing read page by page while tasks are created,  *)
(*            completed and deleted.                                       *)
(* SpecArt  : save_image step by step, with get_image_path and             *)
(*            delete_image called in between.                              *)
(* SpecFrame: update_task called with every combination of arguments, its  *)
(*            effect on the table observed.                                *)
(***************************************************************************)
EXTENDS Integers, Sequences, FiniteSets, TLC

VARIABLES
    tasks,      \* the tasks table: id -> row, or NoTask
    files,      \* names of the files present in the image storage directory
    runs,       \* the process_image_task invocations (background tasks)
    apiKeyOk,   \* config.doubao.api_key is set and holds no "your-"
    created,    \* the value returned by the latest create_task call
    gen,        \* SpecGen: the generate_image call in progress
    upd,        \* SpecUpd: the two update_task calls in progress
    updBase,    \* SpecUpd: the row as stored before the two calls
    load,       \* SpecLoad: the submissions waiting and the executions in flight
    clock,      \* SpecList: what datetime.utcnow() returns
    stamp,      \* SpecList: the created_at column, id -> time
    updated,    \* SpecList, SpecFrame: the updated_at column, id -> time, or NoTime
    building,   \* SpecList: the Task objects constructed and not yet committed
    sweep,      \* SpecList: the pages a client has fetched, first to last
    disk,       \* SpecArt: the files on disk, path -> bytes held, or Absent
    save,       \* SpecArt: the save_image call in progress
    io,         \* SpecArt: the get_image_path / delete_image call in progress
    svc         \* SpecMark, SpecFrame: the latest service call and its result

\* the variables of SpecLoad, of SpecList and of SpecArt
loadVars == <<load>>
listVars == <<clock, stamp, updated, building, sweep>>
artVars == <<disk, save, io>>
svcVars == <<svc>>
\* the variables of the specifications other than Spec, SpecGen and SpecUpd
others == <<loadVars, listVars, artVars, svcVars>>
\* the variables of Spec, SpecGen and SpecUpd
core == <<tasks, files, runs, apiKeyOk, created, gen, upd, updBase>>

vars == <<tasks, files, runs, apiKeyOk, created, gen, upd, updBase, others>>

----------------------------------------------------------------------------
(* Bounds of the model *)

MaxId == 2
MaxRuns == 2
\* generate requests that arrive in SpecLoad
MaxRequests == 101
\* the largest value of the clock in SpecList
MaxClock == 2

(* Program constants *)

max_retries == 3
\* config.task.queue_max_size (TASK_QUEUE_MAX_SIZE)
queue_max_size == 100
\* config.file_storage.max_image_size_mb
max_image_size_mb == 5

----------------------------------------------------------------------------
(* Values *)

Null == "None"                      \* Python None
Ids == 1..MaxId
RunIds == 1..MaxRuns

PENDING == "pending"
PROCESSING == "processing"
COMPLETED == "completed"
FAILED == "failed"
TaskStatus == {PENDING, PROCESSING, COMPLETED, FAILED}
Terminal == {COMPLETED, FAILED}

Prompts == {"a red bicycle", "a cat"}

\* image ids drawn by generate_token(8) in _parse_response
GenLocators == {"https://example.com/generated/A.jpg",
                "https://example.com/generated/B.jpg"}

\* names drawn by unique_filename: <timestamp>_<8 hex digits><suffix>
FileNames == {"20240101_000000_aaaaaaaa.jpg", "20240101_000000_bbbbbbbb.jpg"}

\* Python truthiness of an optional string: None and "" are both false
Falsy(x) == x \in {Null, ""}

\* no row / a None where a Task is expected
NoTask == [id |-> 0]

----------------------------------------------------------------------------
(* Task store: db/models.py, services/task_service.py *)

\* mutant: the row is created with the status of a claimed task
NewTaskClaimed(id, prompt) ==
    [id |-> id, prompt |-> prompt, status |-> PROCESSING,
     image_url |-> Null, error_message |-> Null]

\* Task(prompt=..., status=TaskStatus.PENDING): the field defaults of the model
NewTask(id, prompt) ==
    [id |-> id, prompt |-> prompt, status |-> PENDING,
     image_url |-> Null, error_message |-> Null]

Exists(store, id) == id \in Ids /\ store[id] # NoTask

\* The primary key is an INTEGER PRIMARY KEY column of the default SQLite
\* database: a new row gets the largest id in the table plus one.
LargestId(store) ==
    IF \A i \in Ids : store[i] = NoTask THEN 0
    ELSE CHOOSE i \in Ids : /\ store[i] # NoTask
                            /\ \A j \in Ids : store[j] # NoTask => j <= i

NextId(store) == LargestId(store) + 1

\* TaskService.get_task: the row, or NoTask for None
GetTask(store, id) == IF Exists(store, id) THEN store[id] ELSE NoTask

\* mutant: the image_url argument is not stored
PatchTaskDropsUrl(task, status, image_url, error_message) ==
    [task EXCEPT
        !.status = IF Falsy(status) THEN @ ELSE status,
        !.error_message = IF Falsy(error_message) THEN @ ELSE error_message]

\* mutant: every argument is assigned, the empty ones too
PatchTaskAssignsAll(task, status, image_url, error_message) ==
    [task EXCEPT
        !.status = IF Falsy(status) THEN @ ELSE status,
        !.image_url = image_url,
        !.error_message = error_message]

\* update_task, "if status: ... if image_url: ... if error_message: ..."
PatchTask(task, status, image_url, error_message) ==
    [task EXCEPT
        !.status = IF Falsy(status) THEN @ ELSE status,
        !.image_url = IF Falsy(image_url) THEN @ ELSE image_url,
        !.error_message = IF Falsy(error_message) THEN @ ELSE error_message]

\* update_task: the table after the call; a missing row changes nothing
UpdateTask(store, id, status, image_url, error_message) ==
    IF Exists(store, id)
    THEN [store EXCEPT ![id] = PatchTask(@, status, image_url, error_message)]
    ELSE store

\* update_task_status(task_id, status) is update_task(task_id, status=status)
UpdateTaskStatus(store, id, status) == UpdateTask(store, id, status, Null, Null)

\* mark_task_failed: one update_task call with status and error_message
MarkTaskFailed(store, id, error_message) ==
    UpdateTask(store, id, FAILED, Null, error_message)

\* delete_task: the table after the call
DeleteRow(store, id) == [store EXCEPT ![id] = NoTask]

----------------------------------------------------------------------------
(* Artifact store: services/image_service.py *)

\* hashlib.md5(prompt).hexdigest()[:8]
PromptHash(p) == IF p = "a red bicycle" THEN "0a1b2c3d" ELSE "4e5f6a7b"

\* the file process_image_task writes when no API key is configured
MockFile(p) == "mock_" \o PromptHash(p) \o ".jpg"
MockUrl(p) == "http://localhost:8000/static/images/" \o MockFile(p)

MockFiles == {MockFile(p) : p \in Prompts}
Locators == GenLocators \cup {MockUrl(p) : p \in Prompts}

\* get_image_path: storage_path / filename when that file exists, else None.
\* The storage directory is flat (save_image and the mock writer create files
\* directly in it), so a reference resolves exactly when it is the name of a
\* stored file; a URL joined to the directory names no stored file.
GetImagePath(fs, filename) == IF filename \in fs THEN filename ELSE Null

----------------------------------------------------------------------------
(* Generator client: services/ai_service.py *)

\* What one requests.post can produce:
\*   ok          status 200, a body with a non-empty "choices"
\*   no_choices  status 200, a body without choices (_parse_response raises)
\*   http_error  any status other than 200
\*   timeout     requests.exceptions.Timeout
\*   conn_error  any other exception of requests.post
Responses == {"ok", "no_choices", "http_error", "timeout", "conn_error"}
Transient == {"http_error", "timeout"}

MsgHttp == "AI interface error: status - text"
MsgTimeouts == "AI interface timed out repeatedly"
MsgNoChoices == "no choices in the AI response"
MsgConn == "connection error"
MsgLoopEnd == "AI service call failed"

\* "attempt < self.max_retries - 1" is false
LastAttempt(attempt) == ~(attempt < max_retries - 1)

\* wait_time = 2 ** attempt, the seconds slept before the next attempt
WaitTime(attempt) == 2 ^ attempt

\* The body of the try block for one response: it returns, continues the loop
\* after the back-off sleep, or raises (Timeout, or another Exception).
\* wait: the seconds time.sleep was called with, 0 when it was not called
TryBody(resp, attempt) ==
    CASE resp = "ok" -> [kind |-> "return", msg |-> Null, wait |-> 0]
      [] resp = "no_choices" -> [kind |-> "exception", msg |-> MsgNoChoices, wait |-> 0]
      [] resp = "http_error" ->
            IF ~LastAttempt(attempt)
            THEN [kind |-> "continue", msg |-> Null, wait |-> WaitTime(attempt)]
            ELSE [kind |-> "exception", msg |-> MsgHttp, wait |-> 0]
      [] resp = "timeout" -> [kind |-> "timeout", msg |-> Null, wait |-> 0]
      [] resp = "conn_error" -> [kind |-> "exception", msg |-> MsgConn, wait |-> 0]

\* mutant: a timeout is not retried
IterationTimeoutFatal(resp, attempt) ==
    LET b == TryBody(resp, attempt) IN
    CASE b.kind = "return" -> b
      [] b.kind = "continue" -> b
      [] b.kind = "timeout" -> [kind |-> "raise", msg |-> MsgTimeouts, wait |-> 0]
      [] b.kind = "exception" ->
            IF ~LastAttempt(attempt)
            THEN [kind |-> "continue", msg |-> Null, wait |-> 0]
            ELSE [kind |-> "raise", msg |-> b.msg, wait |-> 0]

\* mutant: the last timeout raises the generic failure of the call
IterationTimeoutGeneric(resp, attempt) ==
    LET b == TryBody(resp, attempt) IN
    CASE b.kind = "return" -> b
      [] b.kind = "continue" -> b
      [] b.kind = "timeout" ->
            IF ~LastAttempt(attempt)
            THEN [kind |-> "continue", msg |-> Null, wait |-> 0]
            ELSE [kind |-> "raise", msg |-> MsgLoopEnd, wait |-> 0]
      [] b.kind = "exception" ->
            IF ~LastAttempt(attempt)
            THEN [kind |-> "continue", msg |-> Null, wait |-> 0]
            ELSE [kind |-> "raise", msg |-> b.msg, wait |-> 0]

\* One iteration of "for attempt in range(self.max_retries)" with its two
\* except clauses: kind is "return", "continue" or "raise".
Iteration(resp, attempt) ==
    LET b == TryBody(resp, attempt) IN
    CASE b.kind = "return" -> b
      [] b.kind = "continue" -> b
      [] b.kind = "timeout" ->
            IF ~LastAttempt(attempt)
            THEN [kind |-> "continue", msg |-> Null, wait |-> 0]
            ELSE [kind |-> "raise", msg |-> MsgTimeouts, wait |-> 0]
      [] b.kind = "exception" ->
            IF ~LastAttempt(attempt)
            THEN [kind |-> "continue", msg |-> Null, wait |-> 0]
            ELSE [kind |-> "raise", msg |-> b.msg, wait |-> 0]

\* generate_image for the responses resps[1], resps[2], ... of its attempts:
\* how it ends, and how many requests it sent.
RECURSIVE RetryLoop(_, _)
RetryLoop(resps, attempt) ==
    IF ~(attempt < max_retries)
    THEN [kind |-> "raise", msg |-> MsgLoopEnd, requests |-> attempt]
    ELSE LET it == Iteration(resps[attempt + 1], attempt) IN
         IF it.kind = "continue"
         THEN RetryLoop(resps, attempt + 1)
         ELSE [kind |-> it.kind, msg |-> it.msg, requests |-> attempt + 1]

GenerateImage(resps) == RetryLoop(resps, 0)

\* every way a generate_image call can end
GenOutcomes == {GenerateImage(s) : s \in [1..max_retries -> Responses]}

\* SpecGen: the call in progress
\* waits: the seconds slept after each attempt that was followed by another
GenStart == [state |-> "running", attempt |-> 0, requests |-> 0,
             resps |-> <<>>, waits |-> <<>>, msg |-> Null]

\* one loop iteration: a request is sent and answered by resp
GenAttempt ==
    /\ gen.state = "running"
    /\ gen.attempt < max_retries
    /\ \E resp \in Responses :
        LET it == Iteration(resp, gen.attempt) IN
        gen' = [gen EXCEPT
                  !.requests = @ + 1,
                  !.resps = Append(@, resp),
                  !.waits = IF it.kind = "continue" THEN Append(@, it.wait) ELSE @,
                  !.attempt = IF it.kind = "continue" THEN @ + 1 ELSE @,
                  !.state = CASE it.kind = "continue" -> "running"
                              [] it.kind = "return" -> "returned"
                              [] it.kind = "raise" -> "raised",
                  !.msg = it.msg]
    /\ UNCHANGED <<tasks, files, runs, apiKeyOk, created, upd, updBase, others>>

----------------------------------------------------------------------------
(* Executor: api/pic.py, process_image_task *)

MsgDb == "database error"
\* what save_image_from_url can raise: str(e) of an exception that carries a
\* message, and of one raised without arguments (str(MemoryError()) is "")
SaveErrors == {"download failed", ""}

\* timeouts: every request of the run's generate_image call timed out
IdleRun == [pc |-> "idle", task |-> 0, prompt |-> Null, start |-> Null,
            image_url |-> Null, err |-> Null, gen |-> FALSE, saved |-> FALSE,
            fault |-> FALSE, lost |-> FALSE, timeouts |-> FALSE]

\* background_tasks.add_task(process_image_task, task_id=..., prompt=...)
\* start: the status of the task at that moment
StartRun(id, prompt, status) ==
    [IdleRun EXCEPT !.pc = "claim", !.task = id, !.prompt = prompt, !.start = status]

\* the slot the next scheduled invocation takes
FreeRun(r) == runs[r].pc = "idle" /\ \A q \in RunIds : q < r => runs[q].pc # "idle"

Active(r) == runs[r].pc \notin {"idle", "done", "crashed"}
Finished(r) == runs[r].pc \in {"done", "crashed"}

\* the except clause is entered with exception message m
Except(run, m) == [run EXCEPT !.pc = "failed_write", !.err = m]

\* the same, for an exception raised by the task store
StoreFault(run) == [Except(run, MsgDb) EXCEPT !.fault = TRUE]

\* TaskService.create_task, called on its own (run/ai_image_cli.py)
CreateTask(p) ==
    /\ NextId(tasks) \in Ids
    /\ tasks' = [tasks EXCEPT ![NextId(tasks)] = NewTask(NextId(tasks), p)]
    /\ created' = NewTask(NextId(tasks), p)
    /\ UNCHANGED <<files, runs, apiKeyOk, gen, upd, updBase, others>>

\* POST /generate: create_task, then schedule process_image_task for it
GenerateImageRequest(p, r) ==
    /\ NextId(tasks) \in Ids
    /\ FreeRun(r)
    /\ tasks' = [tasks EXCEPT ![NextId(tasks)] = NewTask(NextId(tasks), p)]
    /\ runs' = [runs EXCEPT ![r] = StartRun(NextId(tasks), p, PENDING)]
    /\ UNCHANGED <<files, apiKeyOk, created, gen, upd, updBase, others>>

\* process_image_task invoked once more for a task that is stored
Dispatch(id, r) ==
    /\ Exists(tasks, id)
    /\ FreeRun(r)
    /\ runs' = [runs EXCEPT ![r] = StartRun(id, tasks[id].prompt, tasks[id].status)]
    /\ UNCHANGED <<tasks, files, apiKeyOk, created, gen, upd, updBase, others>>

\* TaskService.delete_task / DELETE /tasks/{task_id}
DeleteTask(id) ==
    /\ Exists(tasks, id)
    /\ tasks' = DeleteRow(tasks, id)
    /\ runs' = [r \in RunIds |->
                  IF runs[r].task = id /\ runs[r].pc # "idle"
                  THEN [runs[r] EXCEPT !.lost = TRUE] ELSE runs[r]]
    /\ UNCHANGED <<files, apiKeyOk, created, gen, upd, updBase, others>>

\* step 1: TaskService.update_task_status(task_id, "processing"); the result
\* of the call is not looked at
RunClaim(r) ==
    /\ runs[r].pc = "claim"
    /\ \/ /\ tasks' = UpdateTaskStatus(tasks, runs[r].task, PROCESSING)
          /\ runs' = [runs EXCEPT ![r].pc = "generate"]
       \/ /\ runs' = [runs EXCEPT ![r] = StoreFault(@)]
          /\ UNCHANGED tasks
    /\ UNCHANGED <<files, apiKeyOk, created, gen, upd, updBase, others>>

\* step 2: without an API key the mock branch writes mock_<hash>.jpg and
\* takes its URL; with one, ai_service.generate_image is called
RunGenerate(r) ==
    /\ runs[r].pc = "generate"
    /\ IF ~apiKeyOk
       THEN /\ files' = files \cup {MockFile(runs[r].prompt)}
            /\ runs' = [runs EXCEPT ![r].pc = "save",
                                    ![r].image_url = MockUrl(runs[r].prompt)]
       ELSE /\ UNCHANGED files
            /\ \E s \in [1..max_retries -> Responses], loc \in GenLocators :
                 LET o == GenerateImage(s) IN
                 runs' = [runs EXCEPT ![r] =
                    IF o.kind = "return"
                    THEN [@ EXCEPT !.pc = "save", !.gen = TRUE, !.image_url = loc]
                    ELSE [Except(@, o.msg) EXCEPT
                            !.gen = TRUE,
                            !.timeouts = \A i \in 1..o.requests : s[i] = "timeout"]]
    /\ UNCHANGED <<tasks, apiKeyOk, created, gen, upd, updBase, others>>

\* mutant: an exception of save_image_from_url is swallowed
RunSaveSwallowsError(r) ==
    /\ runs[r].pc = "save"
    /\ \/ \E f \in FileNames :
            /\ files' = files \cup {f}
            /\ runs' = [runs EXCEPT ![r].pc = "complete_status", ![r].saved = TRUE]
       \/ \E m \in SaveErrors :
            /\ runs' = [runs EXCEPT ![r].pc = "complete_status", ![r].err = m]
            /\ UNCHANGED files
    /\ UNCHANGED <<tasks, apiKeyOk, created, gen, upd, updBase, others>>

\* step 3: image_service.save_image_from_url(image_url); the file is stored
\* under a name unique_filename draws, the returned path is not used
RunSave(r) ==
    /\ runs[r].pc = "save"
    /\ \/ \E f \in FileNames :
            /\ files' = files \cup {f}
            /\ runs' = [runs EXCEPT ![r].pc = "complete_status", ![r].saved = TRUE]
       \/ \E m \in SaveErrors :
            /\ runs' = [runs EXCEPT ![r] = Except(@, m)]
            /\ UNCHANGED files
    /\ UNCHANGED <<tasks, apiKeyOk, created, gen, upd, updBase, others>>

\* step 4, first half of mark_task_completed:
\* update_task_status(task_id, "completed"); False for a missing row ends
\* the "and" and the run
RunCompleteStatus(r) ==
    /\ runs[r].pc = "complete_status"
    /\ \/ /\ tasks' = UpdateTaskStatus(tasks, runs[r].task, COMPLETED)
          /\ runs' = [runs EXCEPT ![r].pc =
                        IF Exists(tasks, runs[r].task) THEN "complete_url" ELSE "done"]
       \/ /\ runs' = [runs EXCEPT ![r] = StoreFault(@)]
          /\ UNCHANGED tasks
    /\ UNCHANGED <<files, apiKeyOk, created, gen, upd, updBase, others>>

\* step 4, second half: update_task(task_id, image_url=image_url)
RunCompleteUrl(r) ==
    /\ runs[r].pc = "complete_url"
    /\ \/ /\ tasks' = UpdateTask(tasks, runs[r].task, Null, runs[r].image_url, Null)
          /\ runs' = [runs EXCEPT ![r].pc = "done"]
       \/ /\ runs' = [runs EXCEPT ![r] = StoreFault(@)]
          /\ UNCHANGED tasks
    /\ UNCHANGED <<files, apiKeyOk, created, gen, upd, updBase, others>>

\* except Exception as e: TaskService.mark_task_failed(task_id, str(e));
\* an exception of this call leaves process_image_task
RunFailedWrite(r) ==
    /\ runs[r].pc = "failed_write"
    /\ \/ /\ tasks' = MarkTaskFailed(tasks, runs[r].task, runs[r].err)
          /\ runs' = [runs EXCEPT ![r].pc = "done"]
       \/ /\ runs' = [runs EXCEPT ![r].pc = "crashed", ![r].fault = TRUE]
          /\ UNCHANGED tasks
    /\ UNCHANGED <<files, apiKeyOk, created, gen, upd, updBase, others>>

RunStep(r) ==
    \/ RunClaim(r)
    \/ RunGenerate(r)
    \/ RunSave(r)
    \/ RunCompleteStatus(r)
    \/ RunCompleteUrl(r)
    \/ RunFailedWrite(r)

----------------------------------------------------------------------------
(* Direct callers of the task service: run/ai_image_cli.py,
   final_validation_v2.py, the test block of task_service.py *)

\* mutant: only the status is written
MarkTaskCompletedStatusOnly(store, id, image_url) ==
    UpdateTaskStatus(store, id, COMPLETED)

\* mark_task_completed: update_task_status(id, "completed") and, when that
\* found the row, update_task(id, image_url=image_url)
MarkTaskCompleted(store, id, image_url) ==
    IF Exists(store, id)
    THEN UpdateTask(UpdateTaskStatus(store, id, COMPLETED), id, Null, image_url, Null)
    ELSE store

\* the arguments the callers pass
CallStatuses == {Null} \cup TaskStatus
CallUrls == {Null, "https://example.com/sunset.jpg"}
\* the URLs passed to mark_task_completed
CompletedUrls == {"https://example.com/sunset.jpg", "https://example.com/cat.jpg"}
CallErrors == {Null, "", "boom"}

UpdateTaskCall(id, status, image_url, error_message) ==
    /\ tasks' = UpdateTask(tasks, id, status, image_url, error_message)
    /\ UNCHANGED <<files, runs, apiKeyOk, created, gen, upd, updBase, others>>

\* no mark_task_completed call made yet
MarkTaskCompletedCall(id, image_url) ==
    /\ tasks' = MarkTaskCompleted(tasks, id, image_url)
    /\ UNCHANGED <<files, runs, apiKeyOk, created, gen, upd, updBase, others>>

\* no mark_task_completed call observed yet
\* from: the image_url of the row before the call
NoCall == [op |-> "none", id |-> 0, url |-> Null, ok |-> FALSE, from |-> Null]

\* The scripts: TaskService.mark_task_completed(task.id, image_url), then the
\* task is read back.  ok: the truth value of what mark_task_completed
\* returns, "False and ..." for a missing row, else the Task that update_task
\* returns
MarkThenGet(id, image_url) ==
    /\ tasks' = MarkTaskCompleted(tasks, id, image_url)
    /\ svc' = [op |-> "mark_task_completed", id |-> id, url |-> image_url,
               ok |-> Exists(tasks, id),
               from |-> IF Exists(tasks, id) THEN tasks[id].image_url ELSE Null]
    /\ UNCHANGED <<files, runs, apiKeyOk, created, gen, upd, updBase,
                   loadVars, listVars, artVars>>

\* update_task(task_id, status, image_url, error_message) called and its
\* result looked at; task.updated_at = datetime.utcnow() is part of the call.
\* ok: a Task was returned, not None
UpdateTaskObserved(id, status, image_url, error_message) ==
    /\ svc.op = "none"
    /\ tasks' = UpdateTask(tasks, id, status, image_url, error_message)
    /\ updated' = IF Exists(tasks, id) THEN [updated EXCEPT ![id] = clock] ELSE updated
    /\ svc' = [op |-> "update_task", id |-> id, status |-> status,
               image_url |-> image_url, error_message |-> error_message,
               ok |-> Exists(tasks, id)]
    /\ UNCHANGED <<files, runs, apiKeyOk, created, gen, upd, updBase,
                   loadVars, artVars, clock, stamp, building, sweep>>

\* the caller has the result of update_task
CallReturn ==
    /\ svc.op = "update_task"
    /\ svc' = NoCall
    /\ UNCHANGED <<core, loadVars, listVars, artVars>>

MarkTaskFailedCall(id, error_message) ==
    /\ tasks' = MarkTaskFailed(tasks, id, error_message)
    /\ UNCHANGED <<files, runs, apiKeyOk, created, gen, upd, updBase, others>>

----------------------------------------------------------------------------
(* Two update_task calls on the same id, read and write apart *)

UpdCallers == {1, 2}
\* the id of the first row created in an empty table
UpdId == NextId([i \in Ids |-> NoTask])

\* rows the executor leaves in the table
BaseTasks ==
    { NewTask(UpdId, "a cat"),
      [NewTask(UpdId, "a cat") EXCEPT !.status = PROCESSING],
      [NewTask(UpdId, "a cat") EXCEPT !.status = COMPLETED,
                                      !.image_url = "https://example.com/generated/A.jpg"],
      [NewTask(UpdId, "a cat") EXCEPT !.status = FAILED, !.error_message = MsgDb] }

Patches == [status : {Null, PROCESSING, COMPLETED, FAILED},
            image_url : {Null, "https://example.com/generated/B.jpg"},
            error_message : {Null, "boom", "retrying"}]

ApplyPatch(task, patch) ==
    PatchTask(task, patch.status, patch.image_url, patch.error_message)

\* session.commit() flushes the unit of work as
\* UPDATE tasks SET <the attributes whose value differs from the loaded one>
\* WHERE id = ...: the other columns keep what the table holds
FlushChanges(row, loaded, changed) ==
    [f \in DOMAIN row |-> IF changed[f] # loaded[f] THEN changed[f] ELSE row[f]]

\* with get_session() as session: task = session.get(Task, task_id)
UpdRead(c) ==
    /\ upd[c].pc = "start"
    /\ Exists(tasks, UpdId)
    /\ upd' = [upd EXCEPT ![c].pc = "loaded", ![c].snap = tasks[UpdId]]
    /\ UNCHANGED <<tasks, files, runs, apiKeyOk, created, gen, updBase, others>>

\* the assignments to the loaded object, session.add(task), session.commit()
UpdCommit(c) ==
    /\ upd[c].pc = "loaded"
    /\ tasks' = [tasks EXCEPT ![UpdId] =
                    FlushChanges(@, upd[c].snap, ApplyPatch(upd[c].snap, upd[c].patch))]
    /\ upd' = [upd EXCEPT ![c].pc = "done"]
    /\ UNCHANGED <<files, runs, apiKeyOk, created, gen, updBase, others>>

----------------------------------------------------------------------------
(* Dispatch under load: api/pic.py, generate_image and the background tasks
   it schedules, counted.  waiting: invocations added with add_task that have
   not started; inflight: invocations that started and have not returned. *)

NoLoad == [arrived |-> 0, waiting |-> 0, inflight |-> 0]

\* POST /generate: create_task, background_tasks.add_task, 201; nothing in
\* the handler looks at the number of invocations already scheduled
Submit ==
    /\ load.arrived < MaxRequests
    /\ load' = [load EXCEPT !.arrived = @ + 1, !.waiting = @ + 1]
    /\ UNCHANGED <<core, listVars, artVars, svcVars>>

\* the framework calls process_image_task once the response is sent
StartExecution ==
    /\ load.waiting > 0
    /\ load' = [load EXCEPT !.waiting = @ - 1, !.inflight = @ + 1]
    /\ UNCHANGED <<core, listVars, artVars, svcVars>>

\* process_image_task returns
FinishExecution ==
    /\ load.inflight > 0
    /\ load' = [load EXCEPT !.inflight = @ - 1]
    /\ UNCHANGED <<core, listVars, artVars, svcVars>>

----------------------------------------------------------------------------
(* Listing: TaskService.get_tasks and GET /tasks (api/pic.py, get_tasks) *)

Min(a, b) == IF a <= b THEN a ELSE b
Max(a, b) == IF a >= b THEN a ELSE b

\* select(Task) [.where(Task.status == status)] carries no ORDER BY; the
\* default database is SQLite, whose table scan returns the rows by rowid,
\* the id column.  ScanUpTo: the ids of the matching rows among 1..i.
RECURSIVE ScanUpTo(_, _, _)
ScanUpTo(store, status, i) ==
    IF i = 0 THEN <<>>
    ELSE LET before == ScanUpTo(store, status, i - 1) IN
         IF store[i] # NoTask /\ (Falsy(status) \/ store[i].status = status)
         THEN Append(before, i)
         ELSE before

Scan(store, status) == ScanUpTo(store, status, MaxId)

\* query.offset(offset).limit(limit)
OffsetLimit(rows, offset, limit) ==
    SubSeq(rows, offset + 1, Min(Len(rows), offset + limit))

\* TaskService.get_tasks(status, limit, offset)
GetTasks(store, status, limit, offset) ==
    OffsetLimit(Scan(store, status), offset, limit)

\* get_current_user: no credentials give id 0, not authenticated; an API key
\* "sk_..." gives id 1001, authenticated
Anonymous == [id |-> 0, is_authenticated |-> FALSE]
ApiUser == [id |-> 1001, is_authenticated |-> TRUE]
CurrentUsers == {Anonymous, ApiUser}

\* the user_id query parameter: None, or an id
UserIdParams == {0, 1001}

\* GET /tasks.  Both user filters evaluate Task.user_id, an attribute the
\* Task model does not have: the AttributeError ends the request (500).
GetTasksPage(store, user, user_id, status, limit, page) ==
    IF ~user.is_authenticated \/ user.id < 1000
    THEN [error |-> TRUE, total |-> 0, tasks |-> <<>>]
    ELSE IF user_id # 0
    THEN [error |-> TRUE, total |-> 0, tasks |-> <<>>]
    ELSE [error |-> FALSE,
          total |-> Len(Scan(store, status)),
          tasks |-> OffsetLimit(Scan(store, status), (page - 1) * limit, limit)]

Creators == {1, 2}
\* updated_at of a task that was never updated: the field default, None
NoTime == -1
ListStatuses == {Null, PENDING, COMPLETED}
PageSizes == 1..MaxId
MaxPages == MaxId + 1

\* no page fetched yet, or the table changed since the last one
NoSweep == [user |-> Anonymous, user_id |-> 0, status |-> Null, limit |-> 0,
            pages |-> <<>>]

\* datetime.utcnow() moves on
Tick ==
    /\ clock < MaxClock
    /\ clock' = clock + 1
    /\ UNCHANGED <<core, loadVars, artVars, svcVars, stamp, updated, building, sweep>>

\* create_task, first half: Task(prompt=..., status=PENDING); created_at is
\* taken from the clock by the default_factory when the object is built,
\* updated_at has the default None
Construct(c, p) ==
    /\ building[c] = NoTask
    /\ building' = [building EXCEPT ![c] =
                       [id |-> -1, prompt |-> p, created_at |-> clock,
                        updated_at |-> NoTime]]
    /\ UNCHANGED <<core, loadVars, artVars, svcVars, clock, stamp, updated, sweep>>

\* create_task, second half: session.add, commit, refresh
Commit(c) ==
    /\ building[c] # NoTask
    /\ NextId(tasks) \in Ids
    /\ tasks' = [tasks EXCEPT ![NextId(tasks)] = NewTask(NextId(tasks), building[c].prompt)]
    /\ stamp' = [stamp EXCEPT ![NextId(tasks)] = building[c].created_at]
    /\ updated' = [updated EXCEPT ![NextId(tasks)] = building[c].updated_at]
    /\ building' = [building EXCEPT ![c] = NoTask]
    /\ sweep' = NoSweep
    /\ UNCHANGED <<files, runs, apiKeyOk, created, gen, upd, updBase, loadVars, artVars, svcVars, clock>>

\* delete_task while a client is listing
ListDelete(id) ==
    /\ Exists(tasks, id)
    /\ tasks' = DeleteRow(tasks, id)
    /\ stamp' = [stamp EXCEPT ![id] = 0]
    /\ updated' = [updated EXCEPT ![id] = NoTime]
    /\ sweep' = NoSweep
    /\ UNCHANGED <<files, runs, apiKeyOk, created, gen, upd, updBase, loadVars, artVars, svcVars,
                   clock, building>>

\* mark_task_completed while a client is listing; each of its update_task
\* calls sets task.updated_at = datetime.utcnow()
ListComplete(id, image_url) ==
    /\ Exists(tasks, id)
    /\ tasks[id].status # COMPLETED
    /\ tasks' = MarkTaskCompleted(tasks, id, image_url)
    /\ updated' = [updated EXCEPT ![id] = clock]
    /\ sweep' = NoSweep
    /\ UNCHANGED <<files, runs, apiKeyOk, created, gen, upd, updBase, loadVars, artVars, svcVars,
                   clock, stamp, building>>

\* GET /tasks?page=..&limit=..: a client fetches page 1, then the next page
\* of the same listing, up to MaxPages, else page 1 again
ListPage(user, user_id, status, limit) ==
    LET same == /\ sweep.user = user /\ sweep.user_id = user_id
                /\ sweep.status = status /\ sweep.limit = limit
                /\ Len(sweep.pages) < MaxPages
        page == IF same THEN Len(sweep.pages) + 1 ELSE 1
        result == GetTasksPage(tasks, user, user_id, status, limit, page)
    IN
    /\ sweep' = [user |-> user, user_id |-> user_id, status |-> status,
                 limit |-> limit,
                 pages |-> IF same THEN Append(sweep.pages, result) ELSE <<result>>]
    /\ UNCHANGED <<core, loadVars, artVars, svcVars, clock, stamp, updated, building>>

----------------------------------------------------------------------------
(* Artifact store on disk: services/image_service.py.  A path is the
   sequence of its components; disk maps the path of every file of interest
   to the number of bytes the file holds, or to Absent. *)

Absent == -1
NoPath == <<>>

\* Path(config.file_storage.image_storage_path), "./static/images"
StorageDir == <<"static", "images">>
\* a file that lies next to the storage directory
Secret == <<"static", "secret.txt">>

DiskPaths == {StorageDir \o <<f>> : f \in FileNames} \cup {Secret}

\* the references callers pass as filename
Refs == {<<f>> : f \in FileNames} \cup {<<"missing.jpg">>, <<"..", "secret.txt">>}

\* len(image_data), and the limit it is compared with
MaxBytes == max_image_size_mb * 1024 * 1024
Payloads == {0, 2, MaxBytes, MaxBytes + 1}

\* pathlib, base / ref: an absolute ref replaces the base, any other ref is
\* appended to it as it is
Join(base, ref) == IF ref # <<>> /\ Head(ref) = "/" THEN ref ELSE base \o ref

\* the file the operating system reaches for a path: ".." steps up
RECURSIVE Walk(_, _)
Walk(parts, at) ==
    IF parts = <<>> THEN at
    ELSE Walk(Tail(parts),
              CASE Head(parts) = ".." ->
                        IF at = <<>> THEN at ELSE SubSeq(at, 1, Len(at) - 1)
                [] Head(parts) \in {".", "/"} -> at
                [] OTHER -> Append(at, Head(parts)))

Reach(path) == Walk(path, <<>>)

\* file_path.exists() and file_path.is_file()
IsFile(d, path) == Reach(path) \in DOMAIN d /\ d[Reach(path)] # Absent

\* get_image_path(filename) on the disk d: the path, or NoPath for None
GetImagePathAt(d, ref) ==
    LET file_path == Join(StorageDir, ref) IN
    IF IsFile(d, file_path) THEN file_path ELSE NoPath

\* mutant: True is returned and the file is left in place
DeleteImageKeepsFile(d, ref) ==
    LET file_path == Join(StorageDir, ref) IN
    IF IsFile(d, file_path)
    THEN [ok |-> TRUE, disk |-> d]
    ELSE [ok |-> FALSE, disk |-> d]

\* delete_image(filename): what it returns and the disk it leaves
DeleteImage(d, ref) ==
    LET file_path == Join(StorageDir, ref) IN
    IF IsFile(d, file_path)
    THEN [ok |-> TRUE, disk |-> [d EXCEPT ![Reach(file_path)] = Absent]]
    ELSE [ok |-> FALSE, disk |-> d]

MsgTooLarge == "image too large"
MsgWrite == "write failed"

IdleSave == [pc |-> "idle", path |-> NoPath, len |-> 0, written |-> 0, err |-> Null]

\* mutant: the file is opened before the size is looked at
SaveImageOpenUnchecked(d, path, len) ==
    IF len > MaxBytes
    THEN [disk |-> [d EXCEPT ![path] = 0],
          save |-> [pc |-> "raised", path |-> path, len |-> len, written |-> 0,
                    err |-> MsgTooLarge]]
    ELSE [disk |-> [d EXCEPT ![path] = 0],
          save |-> [pc |-> "open", path |-> path, len |-> len, written |-> 0,
                    err |-> Null]]

\* save_image up to open(file_path, 'wb'): the size check raises ValueError
\* before anything is opened; open creates the file, empty, under its final
\* name
SaveImageOpen(d, path, len) ==
    IF len > MaxBytes
    THEN [disk |-> d,
          save |-> [pc |-> "raised", path |-> path, len |-> len, written |-> 0,
                    err |-> MsgTooLarge]]
    ELSE [disk |-> [d EXCEPT ![path] = 0],
          save |-> [pc |-> "open", path |-> path, len |-> len, written |-> 0,
                    err |-> Null]]

\* save_image(image_data): unique_filename draws the name, a timestamp of
\* one second's resolution and 8 hex digits of a uuid4; nothing looks whether
\* a file of that name exists
SaveImageCall(f, len) ==
    /\ save.pc = "idle"
    /\ disk' = SaveImageOpen(disk, StorageDir \o <<f>>, len).disk
    /\ save' = SaveImageOpen(disk, StorageDir \o <<f>>, len).save
    /\ UNCHANGED <<core, loadVars, listVars, svcVars, io>>

\* f.write(image_data): the bytes reach the file in one piece or in two; a
\* file that was unlinked meanwhile stays unlinked
SaveWrite ==
    /\ save.pc = "open"
    /\ save.written < save.len
    /\ \E k \in {1, save.len} :
        /\ k > save.written
        /\ save' = [save EXCEPT !.written = k]
        /\ disk' = IF disk[save.path] # Absent
                   THEN [disk EXCEPT ![save.path] = k]
                   ELSE disk
    /\ UNCHANGED <<core, loadVars, listVars, svcVars, io>>

\* the with block ends, save_image returns str(file_path)
SaveClose ==
    /\ save.pc = "open"
    /\ save.written = save.len
    /\ save' = [save EXCEPT !.pc = "done"]
    /\ UNCHANGED <<core, loadVars, listVars, svcVars, disk, io>>

\* f.write raises (OSError): the exception is logged and raised again, the
\* file stays as far as it was written
SaveFault ==
    /\ save.pc = "open"
    /\ save.written < save.len
    /\ save' = [save EXCEPT !.pc = "raised", !.err = MsgWrite]
    /\ UNCHANGED <<core, loadVars, listVars, svcVars, disk, io>>

\* the caller has the result of save_image
SaveReturn ==
    /\ save.pc \in {"done", "raised"}
    /\ save' = IdleSave
    /\ UNCHANGED <<core, loadVars, listVars, svcVars, disk, io>>

\* deleted: the reference whose file the previous call deleted
IdleIo == [op |-> "none", ref |-> NoPath, path |-> NoPath, ok |-> FALSE,
           deleted |-> NoPath]

\* image_service.get_image_path(filename)
GetImagePathCall(ref) ==
    /\ io.op = "none"
    /\ io' = [io EXCEPT !.op = "resolve", !.ref = ref,
                        !.path = GetImagePathAt(disk, ref)]
    /\ UNCHANGED <<core, loadVars, listVars, svcVars, disk, save>>

\* image_service.delete_image(filename)
DeleteImageCall(ref) ==
    /\ io.op = "none"
    /\ disk' = DeleteImage(disk, ref).disk
    /\ io' = [io EXCEPT !.op = "delete", !.ref = ref,
                        !.ok = DeleteImage(disk, ref).ok]
    /\ UNCHANGED <<core, loadVars, listVars, svcVars, save>>

\* the caller has the result of get_image_path or delete_image
IoReturn ==
    /\ io.op # "none"
    /\ io' = [IdleIo EXCEPT
                !.deleted = IF io.op = "delete" /\ io.ok THEN io.ref ELSE NoPath]
    /\ UNCHANGED <<core, loadVars, listVars, svcVars, disk, save>>

----------------------------------------------------------------------------
(* Specifications *)

UpdIdle == [c \in UpdCallers |-> [pc |-> "idle", patch |-> Null, snap |-> NoTask]]

Init ==
    /\ tasks = [i \in Ids |-> NoTask]
    /\ files = {}
    /\ runs = [r \in RunIds |-> IdleRun]
    /\ apiKeyOk \in BOOLEAN
    /\ created = NoTask
    /\ gen = GenStart
    /\ upd = UpdIdle
    /\ updBase = NoTask
    /\ load = NoLoad
    /\ clock = 0
    /\ stamp = [i \in Ids |-> 0]
    /\ updated = [i \in Ids |-> NoTime]
    /\ building = [c \in Creators |-> NoTask]
    /\ sweep = NoSweep
    /\ disk = [p \in DiskPaths |-> IF p = Secret THEN 2 ELSE Absent]
    /\ save = IdleSave
    /\ io = IdleIo
    /\ svc = NoCall

Next ==
    \/ \E p \in Prompts, r \in RunIds : GenerateImageRequest(p, r)
    \/ \E id \in Ids, r \in RunIds : Dispatch(id, r)
    \/ \E id \in Ids : DeleteTask(id)
    \/ \E r \in RunIds : RunStep(r)

Spec == Init /\ [][Next]_vars

SpecLive == Spec /\ \A r \in RunIds : WF_vars(RunStep(r))

NextGen == GenAttempt

SpecGen == Init /\ [][NextGen]_vars

NextSvc ==
    \/ \E p \in Prompts : CreateTask(p)
    \/ \E id \in Ids : DeleteTask(id)
    \/ \E id \in Ids, st \in CallStatuses, u \in CallUrls, e \in CallErrors :
          UpdateTaskCall(id, st, u, e)
    \/ \E id \in Ids, u \in CallUrls \ {Null} : MarkTaskCompletedCall(id, u)
    \/ \E id \in Ids, e \in CallErrors \ {Null} : MarkTaskFailedCall(id, e)

SpecSvc == Init /\ [][NextSvc]_vars

InitUpd ==
    /\ updBase \in BaseTasks
    /\ tasks = [i \in Ids |-> IF i = UpdId THEN updBase ELSE NoTask]
    /\ files = {}
    /\ runs = [r \in RunIds |-> IdleRun]
    /\ apiKeyOk = TRUE
    /\ created = NoTask
    /\ gen = GenStart
    /\ upd \in [UpdCallers -> [pc : {"start"}, patch : Patches, snap : {NoTask}]]
    /\ load = NoLoad
    /\ clock = 0
    /\ stamp = [i \in Ids |-> 0]
    /\ updated = [i \in Ids |-> NoTime]
    /\ building = [c \in Creators |-> NoTask]
    /\ sweep = NoSweep
    /\ disk = [p \in DiskPaths |-> IF p = Secret THEN 2 ELSE Absent]
    /\ save = IdleSave
    /\ io = IdleIo
    /\ svc = NoCall

NextUpd == \E c \in UpdCallers : UpdRead(c) \/ UpdCommit(c)

SpecUpd == InitUpd /\ [][NextUpd]_vars

NextLoad == Submit \/ StartExecution \/ FinishExecution

SpecLoad == Init /\ [][NextLoad]_vars

\* the scripts that drive a task by hand: create, set a status, mark it
\* completed, read it back
NextMark ==
    \/ CreateTask("a cat")
    \/ \E id \in Ids : DeleteTask(id)
    \/ \E id \in Ids, st \in TaskStatus : UpdateTaskCall(id, st, Null, Null)
    \/ \E id \in Ids, u \in CompletedUrls : MarkThenGet(id, u)

SpecMark == Init /\ [][NextMark]_vars

NextList ==
    \/ Tick
    \/ \E c \in Creators : Construct(c, "a cat")
    \/ \E c \in Creators : Commit(c)
    \/ \E id \in Ids : ListDelete(id)
    \/ \E id \in Ids, u \in CallUrls \ {Null} : ListComplete(id, u)
    \/ \E user \in CurrentUsers, user_id \in UserIdParams,
          status \in ListStatuses, limit \in PageSizes :
          ListPage(user, user_id, status, limit)

InitList == Init /\ apiKeyOk

SpecList == InitList /\ [][NextList]_vars

NextArt ==
    \/ \E f \in FileNames, len \in Payloads : SaveImageCall(f, len)
    \/ SaveWrite
    \/ SaveClose
    \/ SaveFault
    \/ SaveReturn
    \/ \E ref \in Refs : GetImagePathCall(ref)
    \/ \E ref \in Refs : DeleteImageCall(ref)
    \/ IoReturn

SpecArt == InitList /\ [][NextArt]_vars

\* update_task called with every combination of arguments on the tasks that
\* create_task and earlier update_task calls left
NextFrame ==
    \/ \E p \in Prompts : CreateTask(p)
    \/ \E id \in Ids, st \in CallStatuses, u \in CallUrls, e \in CallErrors :
          UpdateTaskObserved(id, st, u, e)
    \/ CallReturn

SpecFrame == InitList /\ [][NextFrame]_vars

----------------------------------------------------------------------------
(* Observations on a run *)

\* ai_service.generate_image was called by run r
GenCalled(r) == runs[r].gen
\* image_service.save_image_from_url was called by run r
SaveCalled(r) == runs[r].image_url # Null /\ runs[r].pc # "save"
\* no other invocation was ever scheduled for the task id of run r
Alone(r) == \A q \in RunIds \ {r} : runs[q].pc = "idle" \/ runs[q].task # runs[r].task
\* no task store call of run r raised and its task was not deleted meanwhile
Undisturbed(r) == ~runs[r].fault /\ ~runs[r].lost /\ Alone(r)
\* get_task(id) returns the record of run r: Completed, with its result
Matches(r) ==
    LET t == GetTask(tasks, runs[r].task) IN
    /\ t # NoTask
    /\ t.id = runs[r].task
    /\ t.prompt = runs[r].prompt
    /\ t.status = COMPLETED
    /\ ~Falsy(t.image_url)
    /\ t.image_url = runs[r].image_url

----------------------------------------------------------------------------
(* Claims *)

\* C1: once a stored task is Completed or Failed, no step changes its status
\* (the row may only be deleted).
C1_TerminalIsFinal ==
    [][\A id \in Ids :
          (Exists(tasks, id) /\ tasks[id].status \in Terminal /\ Exists(tasks', id))
              => tasks'[id].status = tasks[id].status]_vars

\* C2: of two invocations of process_image_task for the same task, both
\* made while it was Pending, at most one goes on to call the generator or
\* the artifact store; the other one is a no-op.
C2_SecondRunIsNoOp ==
    \A r1, r2 \in RunIds :
        (/\ r1 # r2
         /\ runs[r1].pc # "idle" /\ runs[r2].pc # "idle"
         /\ runs[r1].task = runs[r2].task
         /\ runs[r1].start = PENDING /\ runs[r2].start = PENDING
         /\ ~runs[r1].lost /\ ~runs[r2].lost)
        => ~((GenCalled(r1) \/ SaveCalled(r1)) /\ (GenCalled(r2) \/ SaveCalled(r2)))

\* C3: no task is left in Processing: a stored task whose status is
\* Processing has an invocation of process_image_task still at work on it.
C3_NeverStuckInProcessing ==
    \A id \in Ids :
        (Exists(tasks, id) /\ tasks[id].status = PROCESSING)
            => \E r \in RunIds : Active(r) /\ runs[r].task = id

\* C4: a Completed task (once the runs on it have returned) has an empty
\* failure reason and a result reference that get_image_path resolves to a
\* stored file.
C4_CompletedResolves ==
    \A id \in Ids :
        (/\ Exists(tasks, id)
         /\ tasks[id].status = COMPLETED
         /\ \A r \in RunIds : runs[r].task = id => ~Active(r))
        => /\ Falsy(tasks[id].error_message)
           /\ ~Falsy(tasks[id].image_url)
           /\ GetImagePath(files, tasks[id].image_url) # Null

\* C5: a Failed task has an empty result reference and a non-empty failure
\* reason.
C5_FailedHasReasonOnly ==
    \A id \in Ids :
        (Exists(tasks, id) /\ tasks[id].status = FAILED)
            => Falsy(tasks[id].image_url) /\ ~Falsy(tasks[id].error_message)

\* C6: the task create_task returns is Pending, with no result and no
\* failure reason, and is the row stored under its id, for every prompt.
C6_CreatedIsPending ==
    created # NoTask =>
        /\ created.status = PENDING
        /\ created.image_url = Null
        /\ created.error_message = Null
        /\ created.id \in Ids

C6_Witness ==
    /\ created # NoTask
    /\ created.id = 2
    /\ created.prompt = "a cat"
    /\ GetTask(tasks, 2) = created

\* C7: never more than max_retries requests are sent, and a call whose
\* attempts all fail transiently (timeout or a non-200 response) ends by
\* raising after exactly max_retries requests.
C7_ExactlyMaxRetries ==
    /\ gen.requests <= max_retries
    /\ (\A i \in 1..Len(gen.resps) : gen.resps[i] \in Transient) =>
          IF gen.state = "running"
          THEN gen.requests < max_retries
          ELSE gen.state = "raised" /\ gen.requests = max_retries

C7_Witness ==
    /\ gen.state = "raised"
    /\ gen.resps = <<"timeout", "http_error", "timeout">>
    /\ gen.requests = max_retries

\* C8: a 200 response without choices on the first attempt ends the call:
\* it has raised and exactly one request was sent.
C8_ValidationNotRetried ==
    (Len(gen.resps) >= 1 /\ gen.resps[1] = "no_choices")
        => gen.state = "raised" /\ gen.requests = 1

\* C9: when both update_task calls have returned, the stored row is the one
\* a serial execution of the two calls, in one order or the other, leaves.
C9_Serializable ==
    (\A c \in UpdCallers : upd[c].pc = "done") =>
        tasks[UpdId] \in
            { ApplyPatch(ApplyPatch(updBase, upd[1].patch), upd[2].patch),
              ApplyPatch(ApplyPatch(updBase, upd[2].patch), upd[1].patch) }

\* C10: once the generator has returned a locator and the save has succeeded,
\* the run ends, and unless a store call raised, the task was deleted or
\* another run worked on it, get_task then returns the task Completed with
\* its id, its prompt and the locator as result.
C10_SuccessCompletes ==
    \A r \in RunIds :
        runs[r].saved ~> (Finished(r) /\ (Undisturbed(r) => Matches(r)))

C10_Witness ==
    \E r \in RunIds :
        /\ runs[r].saved /\ runs[r].pc = "done"
        /\ runs[r].start = PENDING
        /\ Undisturbed(r) /\ Matches(r)
        /\ runs[r].prompt = "a red bicycle"

\* C11: when every one of the max_retries requests of a run's generator call
\* timed out, the run (no store call of it raised, its task was not deleted
\* and no other run worked on it) ends with the task Failed, and the stored
\* reason is the non-empty message of exhausted timeouts, which no other
\* failure of the generator produces.
C11_TimeoutsExhausted ==
    \A r \in RunIds :
        (runs[r].timeouts /\ Finished(r) /\ Undisturbed(r)) =>
            LET t == GetTask(tasks, runs[r].task) IN
            /\ t # NoTask
            /\ t.status = FAILED
            /\ ~Falsy(t.error_message)
            /\ t.error_message = MsgTimeouts
            /\ MsgTimeouts \notin {MsgHttp, MsgNoChoices, MsgConn, MsgLoopEnd, MsgDb}

C11_Witness ==
    \E r \in RunIds :
        /\ runs[r].timeouts /\ runs[r].pc = "done" /\ Undisturbed(r)
        /\ runs[r].start = PENDING
        /\ tasks[runs[r].task].status = FAILED
        /\ tasks[runs[r].task].error_message = MsgTimeouts

\* C12: the submissions waiting to run never exceed the configured queue
\* bound (task.queue_max_size; the configuration holds no worker-pool size to
\* compare the executions in flight with).
C12_BoundedLoad == load.waiting <= queue_max_size

\* C13: no accepted task is dropped: a stored task that is still Pending has
\* an invocation of process_image_task that has not returned.
C13_NoPendingDropped ==
    \A id \in Ids :
        (Exists(tasks, id) /\ tasks[id].status = PENDING)
            => \E r \in RunIds : Active(r) /\ runs[r].task = id

\* C14: over an unchanged table of n matching tasks, page p of a listing
\* with page size k returns min(k, max(0, n - (p-1)*k)) tasks and the total
\* n, on every page call.
C14_PageSizes ==
    \A p \in 1..Len(sweep.pages) :
        LET n == Len(Scan(tasks, sweep.status))
            k == sweep.limit
        IN /\ ~sweep.pages[p].error
           /\ Len(sweep.pages[p].tasks) = Min(k, Max(0, n - (p - 1) * k))
           /\ sweep.pages[p].total = n

\* the pages of the sweep, one after the other
RECURSIVE Concat(_, _)
Concat(pages, i) ==
    IF i = 0 THEN <<>> ELSE Concat(pages, i - 1) \o pages[i].tasks

\* the ids of set S ordered by creation time, ties broken by id
RECURSIVE ByCreation(_, _)
ByCreation(S, at) ==
    IF S = {} THEN <<>>
    ELSE LET first == CHOOSE i \in S : \A j \in S :
                          at[i] < at[j] \/ (at[i] = at[j] /\ i <= j)
         IN <<first>> \o ByCreation(S \ {first}, at)

\* C15: the pages of a listing that was read to its end over an unchanged
\* table, put one after the other, are the matching tasks in the order of
\* their creation time, ties broken by id: each task once, none skipped.
C15_StableOrder ==
    (/\ Len(sweep.pages) = MaxPages
     /\ \A p \in 1..Len(sweep.pages) : ~sweep.pages[p].error)
    => LET rows == Scan(tasks, sweep.status) IN
       Concat(sweep.pages, Len(sweep.pages))
           = ByCreation({rows[i] : i \in 1..Len(rows)}, stamp)

\* C16: a file that get_image_path resolves while save_image is writing it,
\* or after the write was interrupted, holds the complete image bytes.
C16_NoPartialVisible ==
    \A f \in FileNames :
        LET p == GetImagePathAt(disk, <<f>>) IN
        (p # NoPath /\ save.pc # "idle" /\ save.path = Reach(p))
            => disk[Reach(p)] = save.len

\* C17: a save_image call whose payload is larger than the maximum size
\* raises the too-large error and leaves every file as it was.
C17_TooLargeLeavesStorage ==
    [][(save.pc = "idle" /\ save'.pc # "idle" /\ save'.len > MaxBytes)
          => (save'.pc = "raised" /\ save'.err = MsgTooLarge /\ disk' = disk)]_vars

C17_Witness ==
    /\ save.pc = "raised"
    /\ save.err = MsgTooLarge
    /\ save.len = MaxBytes + 1
    /\ disk[save.path] = Absent
    /\ \E p \in DiskPaths \ {Secret} : disk[p] = 2

\* the path lies inside the storage directory
Inside(path) ==
    /\ Len(Reach(path)) > Len(StorageDir)
    /\ SubSeq(Reach(path), 1, Len(StorageDir)) = StorageDir

\* C18: what get_image_path returns is None or a path inside the storage
\* directory.
C18_NoTraversal ==
    (io.op = "resolve" /\ io.path # NoPath) => Inside(io.path)

\* C20: delete_image of a reference whose file is absent returns False and
\* leaves the disk as it was; of one whose file exists, it returns True and
\* removes that file and no other (so the next delete of it returns False).
C20_DeleteImage ==
    [][(io.op = "none" /\ io'.op = "delete") =>
          LET p == Reach(StorageDir \o io'.ref) IN
          IF p \in DOMAIN disk /\ disk[p] # Absent
          THEN io'.ok /\ disk' = [disk EXCEPT ![p] = Absent]
          ELSE ~io'.ok /\ disk' = disk]_vars

C20_Witness ==
    /\ io.op = "delete"
    /\ ~io.ok
    /\ io.ref \in {<<f>> : f \in FileNames}
    /\ io.deleted = io.ref

\* C19: mark_task_completed(id, url) on a stored task returns a true value,
\* and get_task(id) then returns the task completed with image_url = url,
\* whatever the row held before.
C19_MarkCompleted ==
    [][(svc' # svc /\ svc'.op = "mark_task_completed" /\ Exists(tasks, svc'.id))
          => /\ svc'.ok
             /\ GetTask(tasks', svc'.id) # NoTask
             /\ GetTask(tasks', svc'.id).status = COMPLETED
             /\ GetTask(tasks', svc'.id).image_url = svc'.url]_vars

C19_Witness ==
    /\ svc.op = "mark_task_completed"
    /\ svc.ok
    /\ svc.from = "https://example.com/sunset.jpg"
    /\ svc.url = "https://example.com/cat.jpg"
    /\ GetTask(tasks, svc.id).image_url = "https://example.com/cat.jpg"
    /\ GetTask(tasks, svc.id).status = COMPLETED

\* the stored task id is Pending
IsPending(store, id) == Exists(store, id) /\ store[id].status = PENDING

\* C21: a run whose task is not Pending when its first statement executes
\* (claimed, terminal or deleted) ends there: it writes nothing to the task
\* store or to the image storage and goes on to no generator call or save.
C21_AbortsUnlessPending ==
    [][\A r \in RunIds :
          (/\ runs[r].pc = "claim" /\ runs'[r].pc # "claim"
           /\ ~IsPending(tasks, runs[r].task))
          => (runs'[r].pc = "done" /\ tasks' = tasks /\ files' = files)]_vars

\* C22: no stored task is Completed with an empty result reference.
C22_CompletedHasResult ==
    \A id \in Ids :
        (Exists(tasks, id) /\ tasks[id].status = COMPLETED)
            => ~Falsy(tasks[id].image_url)

\* C23: of the result reference and the failure reason of a stored task at
\* most one is non-empty, and both are empty while the task is Pending or
\* Processing.
C23_ResultXorReason ==
    \A id \in Ids :
        Exists(tasks, id) =>
            /\ Falsy(tasks[id].image_url) \/ Falsy(tasks[id].error_message)
            /\ tasks[id].status \in {PENDING, PROCESSING}
                  => Falsy(tasks[id].image_url) /\ Falsy(tasks[id].error_message)

\* save_image_from_url was called by run r and raised
SaveFailed(r) ==
    /\ runs[r].pc \in {"failed_write", "done", "crashed"}
    /\ runs[r].image_url # Null
    /\ ~runs[r].saved

\* C24: a run writes Completed only after its generator step produced a
\* locator and its save returned; a run whose save raised never writes
\* Completed, and when it has ended (no store call of it raised, its task
\* was not deleted, no other run worked on it) the task is Failed with the
\* message of the save's exception as reason (an empty message is stored as
\* no reason).
C24_OrderedSteps ==
    /\ [][\A r \in RunIds :
             (/\ runs[r].pc = "complete_status"
              /\ tasks' # tasks
              /\ runs'[r].pc # runs[r].pc)
             => /\ runs[r].saved
                /\ runs[r].image_url \in Locators
                /\ apiKeyOk => GenCalled(r)]_vars
    /\ [](\A r \in RunIds :
            SaveFailed(r) =>
               /\ runs[r].pc # "complete_status" /\ runs[r].pc # "complete_url"
               /\ (Finished(r) /\ Undisturbed(r)) =>
                     LET t == GetTask(tasks, runs[r].task) IN
                     /\ t # NoTask
                     /\ t.status = FAILED
                     /\ Falsy(t.image_url)
                     /\ IF Falsy(runs[r].err) THEN Falsy(t.error_message)
                        ELSE t.error_message = runs[r].err)

C24_Witness ==
    \E r \in RunIds :
        /\ SaveFailed(r) /\ runs[r].pc = "done" /\ Undisturbed(r)
        /\ GenCalled(r)
        /\ runs[r].err = "download failed"
        /\ tasks[runs[r].task].status = FAILED
        /\ tasks[runs[r].task].error_message = "download failed"

\* C25: no invocation of process_image_task ends by raising, and one that
\* met a failure and has returned (its task not deleted, no other run
\* working on it) left the task Completed or Failed.
C25_ErrorsNeverEscape ==
    \A r \in RunIds :
        /\ runs[r].pc # "crashed"
        /\ (runs[r].pc = "done" /\ runs[r].err # Null /\ ~runs[r].lost /\ Alone(r))
              => /\ Exists(tasks, runs[r].task)
                 /\ tasks[runs[r].task].status \in Terminal

\* C26: the wait before retry k + 1, after a k-th attempt that failed with a
\* timeout or a non-200 response, is 2^(k-1) seconds: 1, 2, 4, ...
C26_ExponentialBackoff ==
    \A k \in 1..Len(gen.waits) :
        gen.resps[k] \in Transient => gen.waits[k] = 2 ^ (k - 1)

\* C27: every stored task has an updated timestamp, it is not earlier than
\* the created timestamp, and no step on a stored task moves it back.
C27_UpdatedAfterCreated ==
    /\ [](\A id \in Ids :
            Exists(tasks, id) => updated[id] # NoTime /\ updated[id] >= stamp[id])
    /\ [][\A id \in Ids :
             (Exists(tasks, id) /\ Exists(tasks', id)) => updated'[id] >= updated[id]]_vars

\* C28: every step of a run that writes a file into the image storage (the
\* mock writer, save_image_from_url) writes it under a name no stored file
\* has.
C28_NoOverwrite ==
    [][\A r \in RunIds :
          (\/ runs[r].pc = "generate" /\ runs'[r].pc = "save" /\ ~apiKeyOk
           \/ runs[r].pc = "save" /\ runs'[r].pc = "complete_status")
          => files' # files]_vars

\* C29: once the task of a run was deleted, no later step of that run (its
\* claim, its completion writes, its failure write) changes the task table:
\* the write finds no row, creates none and touches no other task.
C29_DeletedStaysDeleted ==
    [][\A r \in RunIds :
          (runs[r].lost /\ runs'[r].pc # runs[r].pc) => tasks' = tasks]_vars

\* C30: an update_task call on a stored task leaves its id, its prompt and
\* its created timestamp as they were, sets each of status, image_url and
\* error_message to the argument when that is non-empty and leaves it as it
\* was otherwise, and changes no field of any other task; on a missing id it
\* returns None and changes nothing.
C30_UpdateFrame ==
    [][(svc.op = "none" /\ svc'.op = "update_task") =>
          LET id == svc'.id IN
          /\ \A j \in Ids \ {id} : tasks'[j] = tasks[j] /\ updated'[j] = updated[j]
          /\ stamp' = stamp
          /\ svc'.ok = Exists(tasks, id)
          /\ IF ~Exists(tasks, id)
             THEN tasks' = tasks /\ updated' = updated
             ELSE /\ tasks'[id].id = tasks[id].id
                  /\ tasks'[id].prompt = tasks[id].prompt
                  /\ tasks'[id].status =
                        IF Falsy(svc'.status) THEN tasks[id].status ELSE svc'.status
                  /\ tasks'[id].image_url =
                        IF Falsy(svc'.image_url) THEN tasks[id].image_url
                        ELSE svc'.image_url
                  /\ tasks'[id].error_message =
                        IF Falsy(svc'.error_message) THEN tasks[id].error_message
                        ELSE svc'.error_message]_vars

C30_Witness ==
    /\ svc.op = "update_task"
    /\ svc.ok
    /\ svc.id = 1
    /\ svc.status = Null /\ svc.error_message = "" /\ ~Falsy(svc.image_url)
    /\ tasks[1].status = FAILED
    /\ tasks[1].error_message = "boom"
    /\ tasks[1].image_url = svc.image_url
    /\ updated[1] # NoTime
    /\ Exists(tasks, 2) /\ tasks[2].prompt # tasks[1].prompt

====
